---- MODULE Spec2Model ----
(***************************************************************************)
(* A model of src/resources/transfer.rs of stripe-rs: the Transfer         *)
(* resource record (its derived Deserialize / Serialize), the Object       *)
(* accessors id() and object(), the TransferListParams record (its derived *)
(* Serialize) and the list accessor Transfer::list.                        *)
(***************************************************************************)
EXTENDS Integers, Sequences, FiniteSets, TLC

VARIABLES
    docs,      \* JSON documents: docs[1] is the input, docs[n+1] = serialize(values[n])
    values,    \* results of deserializing docs[n]: Ok(Transfer) or Err(e)
    edits,     \* number of changes made to the input document while it is built
    ret,       \* the last accessor call on a Transfer and what it returned
    query,     \* TransferListParams under serialization and the query produced
    noneStyle, \* what the query-string serializer does with a None it is handed
    requests,  \* the requests issued on the client, in order
    calls      \* the list calls made so far: params, the client's response, the result

vars == <<docs, values, edits, ret, query, noneStyle, requests, calls>>

----------------------------------------------------------------------------
(* Bounds of the model.                                                    *)

MaxEdits == 1
MaxPasses == 2
MaxCalls == 2
MaxData == 2
MaxExpand == 2

----------------------------------------------------------------------------
(* Rust's Option and Result.                                               *)

None == [tag |-> "None"]
Some(x) == [tag |-> "Some", val |-> x]
Option_is_none(o) == o.tag = "None"

Ok(x) == [tag |-> "Ok", val |-> x]
Err(e) == [tag |-> "Err", err |-> e]
IsOk(r) == r.tag = "Ok"

(* JSON values.                                                            *)

JNull == [k |-> "null"]
JBool(b) == [k |-> "bool", v |-> b]
JInt(n) == [k |-> "number", v |-> n]
JStr(s) == [k |-> "string", v |-> s]
JArr(a) == [k |-> "array", v |-> a]
JObj(o) == [k |-> "object", v |-> o]

EmptyMap == [x \in {} |-> x]

----------------------------------------------------------------------------
(* The fields of struct Transfer, in declaration order.                    *)

TransferFieldOrder ==
    << "id", "amount", "amount_reversed", "balance_transaction", "created",
       "currency", "description", "destination", "destination_payment",
       "livemode", "metadata", "reversals", "reversed", "source_transaction",
       "source_type", "transfer_group" >>

TransferFields == {TransferFieldOrder[i] : i \in DOMAIN TransferFieldOrder}

\* The fields declared Option<...>.
OptionalFields ==
    { "balance_transaction", "description", "destination", "destination_payment",
      "source_transaction", "source_type", "transfer_group" }

RequiredFields == TransferFields \ OptionalFields

\* The fields declared Option<Expandable<...>>.
ExpandableFields ==
    { "balance_transaction", "destination", "destination_payment", "source_transaction" }

\* The fields carrying #[serde(skip_serializing_if = "Option::is_none")].
SkipSerializingIfNone ==
    { "balance_transaction", "description", "destination", "destination_payment",
      "source_transaction", "source_type", "transfer_group" }

\* The variants of the Currency enum the model uses.
Currencies == {"usd", "eur"}

----------------------------------------------------------------------------
(* Deserializers of the declared field types.                              *)

de_string(j) == IF j.k = "string" THEN Ok(j.v) ELSE Err("invalid type")
de_i64(j) == IF j.k = "number" THEN Ok(j.v) ELSE Err("invalid type")
de_bool(j) == IF j.k = "bool" THEN Ok(j.v) ELSE Err("invalid type")

de_Currency(j) ==
    IF j.k = "string"
    THEN IF j.v \in Currencies THEN Ok(j.v) ELSE Err("unknown variant")
    ELSE Err("invalid type")

\* Metadata = HashMap<String, String>
de_Metadata(j) ==
    IF j.k = "object" /\ \A key \in DOMAIN j.v : j.v[key].k = "string"
    THEN Ok([key \in DOMAIN j.v |-> j.v[key].v])
    ELSE Err("invalid type")

\* A related record (Account, Charge, BalanceTransaction, TransferReversal):
\* an object identified by its id.
de_Record(j) ==
    IF j.k = "object"
    THEN IF "id" \in DOMAIN j.v /\ j.v["id"].k = "string"
         THEN Ok([id |-> j.v["id"].v])
         ELSE Err("missing field")
    ELSE Err("invalid type")

\* Expandable<T>: a bare identifier or the full record.
de_Expandable(j) ==
    IF j.k = "string"
    THEN Ok([variant |-> "Id", id |-> j.v])
    ELSE LET r == de_Record(j)
         IN IF IsOk(r) THEN Ok([variant |-> "Object", object |-> r.val])
            ELSE Err("data did not match any variant")

\* List<TransferReversal>: data, has_more, url.
de_List(j) ==
    IF j.k = "object"
    THEN IF /\ {"data", "has_more", "url"} \subseteq DOMAIN j.v
            /\ j.v["data"].k = "array"
            /\ \A i \in DOMAIN j.v["data"].v : IsOk(de_Record(j.v["data"].v[i]))
            /\ j.v["has_more"].k = "bool"
            /\ j.v["url"].k = "string"
         THEN Ok([data |-> [i \in DOMAIN j.v["data"].v |-> de_Record(j.v["data"].v[i]).val],
                  has_more |-> j.v["has_more"].v,
                  url |-> j.v["url"].v])
         ELSE Err("invalid value")
    ELSE Err("invalid type")

\* de_inner with source_type a closed enum of the two documented values.
de_inner_closed(f, j) ==
    CASE f \in {"id", "description", "transfer_group"} -> de_string(j)
      [] f = "source_type" ->
            IF j.k = "string" /\ j.v \in {"card", "bank_account"} THEN Ok(j.v)
            ELSE Err("unknown variant")
      [] f \in {"amount", "amount_reversed", "created"} -> de_i64(j)
      [] f = "currency" -> de_Currency(j)
      [] f \in {"livemode", "reversed"} -> de_bool(j)
      [] f = "metadata" -> de_Metadata(j)
      [] f = "reversals" -> de_List(j)
      [] f \in ExpandableFields -> de_Expandable(j)

\* The deserializer of a field's type without its Option wrapper.
de_inner(f, j) ==
    CASE f \in {"id", "description", "source_type", "transfer_group"} -> de_string(j)
      [] f \in {"amount", "amount_reversed", "created"} -> de_i64(j)
      [] f = "currency" -> de_Currency(j)
      [] f \in {"livemode", "reversed"} -> de_bool(j)
      [] f = "metadata" -> de_Metadata(j)
      [] f = "reversals" -> de_List(j)
      [] f \in ExpandableFields -> de_Expandable(j)

\* de_Option without the null case: null must be a T.
de_Option_strict(f, j) ==
    LET r == de_inner(f, j) IN IF IsOk(r) THEN Ok(Some(r.val)) ELSE r

\* Option<T>: null is None, anything else must be a T.
de_Option(f, j) ==
    IF j.k = "null" THEN Ok(None)
    ELSE LET r == de_inner(f, j) IN IF IsOk(r) THEN Ok(Some(r.val)) ELSE r

\* de_field with amount_reversed read from the key "amount".
de_field_renamed(f, doc) ==
    LET key == IF f = "amount_reversed" THEN "amount" ELSE f
    IN  IF key \in DOMAIN doc
        THEN IF f \in OptionalFields THEN de_Option(f, doc[key]) ELSE de_inner(f, doc[key])
        ELSE IF f \in OptionalFields THEN Ok(None) ELSE Err("missing field")

\* One field of the struct, from the JSON object doc.
de_field(f, doc) ==
    IF f \in DOMAIN doc
    THEN IF f \in OptionalFields THEN de_Option(f, doc[f]) ELSE de_inner(f, doc[f])
    ELSE IF f \in OptionalFields THEN Ok(None) ELSE Err("missing field")

\* #[derive(Deserialize)] struct Transfer: keys that are no field are ignored,
\* and any field's error is the error of the whole.
Transfer_deserialize(doc) ==
    LET r == [f \in TransferFields |-> de_field(f, doc)]
    IN  IF \A f \in TransferFields : IsOk(r[f])
        THEN Ok([f \in TransferFields |-> r[f].val])
        ELSE Err("deserialize")

----------------------------------------------------------------------------
(* Serializers of the declared field types.                                *)

ser_Record(r) == JObj([id |-> JStr(r.id)])

ser_Expandable(e) == IF e.variant = "Id" THEN JStr(e.id) ELSE ser_Record(e.object)

ser_List(l) ==
    JObj([data |-> JArr([i \in DOMAIN l.data |-> ser_Record(l.data[i])]),
          has_more |-> JBool(l.has_more),
          url |-> JStr(l.url)])

ser_inner(f, x) ==
    CASE f \in {"id", "description", "source_type", "transfer_group", "currency"} -> JStr(x)
      [] f \in {"amount", "amount_reversed", "created"} -> JInt(x)
      [] f \in {"livemode", "reversed"} -> JBool(x)
      [] f = "metadata" -> JObj([key \in DOMAIN x |-> JStr(x[key])])
      [] f = "reversals" -> ser_List(x)
      [] f \in ExpandableFields -> ser_Expandable(x)

ser_field(f, x) ==
    IF f \in OptionalFields
    THEN IF Option_is_none(x) THEN JNull ELSE ser_inner(f, x.val)
    ELSE ser_inner(f, x)

\* skip_serializing without the attribute: no field is left out.
skip_serializing_never(f, x) == FALSE

\* Whether the derived Serialize leaves field f out for the value x.
skip_serializing(f, x) == f \in SkipSerializingIfNone /\ Option_is_none(x)

\* #[derive(Serialize)] struct Transfer.
Transfer_serialize(t) ==
    [f \in {g \in TransferFields : ~skip_serializing(g, t[g])} |-> ser_field(f, t[f])]

----------------------------------------------------------------------------
(* impl Object for Transfer.                                               *)

Transfer_id(t) == t.id

\* object() returning the identifier.
Transfer_object_id(t) == t.id

Transfer_object(t) == "transfer"

----------------------------------------------------------------------------
(* JSON documents handed to the deserializer.                              *)

NoReversals ==
    JObj([data |-> JArr(<<>>), has_more |-> JBool(FALSE),
          url |-> JStr("/v1/transfers/tr_1/reversals")])

OneReversal ==
    JObj([data |-> JArr(<<JObj([id |-> JStr("trr_1")])>>), has_more |-> JBool(FALSE),
          url |-> JStr("/v1/transfers/tr_1/reversals")])

\* A transfer with the required fields only.
MinimalJson ==
    [id |-> JStr("tr_1"), amount |-> JInt(1000), amount_reversed |-> JInt(0),
     created |-> JInt(1690000000), currency |-> JStr("usd"), livemode |-> JBool(FALSE),
     metadata |-> JObj(EmptyMap), reversals |-> NoReversals, reversed |-> JBool(FALSE)]

\* A fully reversed transfer with every optional field, as the API returns it.
FullJson ==
    [id |-> JStr("tr_2"), object |-> JStr("transfer"),
     amount |-> JInt(400), amount_reversed |-> JInt(400),
     balance_transaction |-> JStr("txn_1"), created |-> JInt(1690000001),
     currency |-> JStr("eur"), description |-> JStr("payout"),
     destination |-> JObj([id |-> JStr("acct_1")]),
     destination_payment |-> JStr("py_1"), livemode |-> JBool(TRUE),
     metadata |-> JObj([order |-> JStr("6735")]), reversals |-> OneReversal,
     reversed |-> JBool(TRUE), source_transaction |-> JStr("ch_1"),
     source_type |-> JStr("card"), transfer_group |-> JStr("group_1")]

\* The keys an input document may carry: the fields and one key that is no field.
JsonKeys == TransferFields \cup {"object"}

\* The values an input document may give a key: of the declared type and not.
JsonCandidates(f) ==
    CASE f = "id" -> {JStr("tr_1"), JStr("tr_2"), JInt(7)}
      [] f = "amount" -> {JInt(1000), JInt(400), JInt(0), JStr("1000")}
      [] f = "amount_reversed" -> {JInt(1000), JInt(400), JInt(0), JNull}
      [] f = "created" -> {JInt(1690000000), JBool(TRUE)}
      [] f = "currency" -> {JStr("usd"), JStr("eur"), JStr("zzz"), JInt(1)}
      [] f \in {"livemode", "reversed"} -> {JBool(TRUE), JBool(FALSE), JInt(0), JNull}
      [] f = "metadata" ->
            {JObj(EmptyMap), JObj([order |-> JStr("6735")]), JObj([order |-> JInt(6735)]),
             JStr("order")}
      [] f = "reversals" -> {NoReversals, OneReversal, JArr(<<>>), JNull}
      [] f \in {"description", "transfer_group"} -> {JStr("text"), JNull, JInt(5)}
      [] f = "source_type" ->
            {JStr("card"), JStr("bank_account"), JStr("bitcoin"), JNull, JBool(TRUE)}
      [] f \in ExpandableFields ->
            {JStr("id_1"), JObj([id |-> JStr("id_1")]), JObj(EmptyMap), JNull, JInt(3)}
      [] f = "object" -> {JStr("transfer"), JInt(0)}

WithField(doc, f, j) == [g \in DOMAIN doc \cup {f} |-> IF g = f THEN j ELSE doc[g]]
WithoutField(doc, f) == [g \in DOMAIN doc \ {f} |-> doc[g]]

Last(s) == s[Len(s)]

----------------------------------------------------------------------------
(* The record pipeline: build an input, deserialize, serialize, repeat.    *)

NoRet == [op |-> "none"]

InitSerde ==
    /\ docs \in {<<MinimalJson>>, <<FullJson>>}
    /\ values = <<>>
    /\ edits = 0
    /\ ret = NoRet
    /\ query = [params |-> None, out |-> None]
    /\ noneStyle = "omit"
    /\ requests = <<>>
    /\ calls = <<>>

\* The server's document gives key f the value j.
SetField(f, j) ==
    /\ values = <<>>
    /\ edits < MaxEdits
    /\ docs' = <<WithField(docs[1], f, j)>>
    /\ edits' = edits + 1
    /\ UNCHANGED <<values, ret, query, noneStyle, requests, calls>>

\* The server's document leaves key f out.
RemoveField(f) ==
    /\ values = <<>>
    /\ edits < MaxEdits
    /\ f \in DOMAIN docs[1]
    /\ docs' = <<WithoutField(docs[1], f)>>
    /\ edits' = edits + 1
    /\ UNCHANGED <<values, ret, query, noneStyle, requests, calls>>

\* serde_json::from_value::<Transfer>(document)
Deserialize ==
    /\ Len(values) < Len(docs)
    /\ values' = Append(values, Transfer_deserialize(Last(docs)))
    /\ UNCHANGED <<docs, edits, ret, query, noneStyle, requests, calls>>

\* serde_json::to_value(&transfer)
Serialize ==
    /\ Len(values) = Len(docs)
    /\ Len(docs) <= MaxPasses
    /\ IsOk(Last(values))
    /\ docs' = Append(docs, Transfer_serialize(Last(values).val))
    /\ UNCHANGED <<values, edits, ret, query, noneStyle, requests, calls>>

\* transfer.id()
CallId(n) ==
    /\ n \in DOMAIN values
    /\ IsOk(values[n])
    /\ ret' = [op |-> "id", on |-> n, val |-> Transfer_id(values[n].val)]
    /\ UNCHANGED <<docs, values, edits, query, noneStyle, requests, calls>>

\* transfer.object()
CallObject(n) ==
    /\ n \in DOMAIN values
    /\ IsOk(values[n])
    /\ ret' = [op |-> "object", on |-> n, val |-> Transfer_object(values[n].val)]
    /\ UNCHANGED <<docs, values, edits, query, noneStyle, requests, calls>>

DoSetField == \E f \in JsonKeys : \E j \in JsonCandidates(f) : SetField(f, j)
DoRemoveField == \E f \in JsonKeys : RemoveField(f)
DoCallId == \E n \in 1..MaxPasses + 1 : CallId(n)
DoCallObject == \E n \in 1..MaxPasses + 1 : CallObject(n)

NextSerde ==
    \/ DoSetField
    \/ DoRemoveField
    \/ Deserialize
    \/ Serialize
    \/ DoCallId
    \/ DoCallObject

SpecSerde == InitSerde /\ [][NextSerde]_vars

----------------------------------------------------------------------------
(* The declared types as a schema of the JSON document, stated on the      *)
(* document alone.                                                         *)

IsRecordJson(j) == j.k = "object" /\ "id" \in DOMAIN j.v /\ j.v["id"].k = "string"

HasDeclaredType(f, j) ==
    CASE f \in {"id", "description", "source_type", "transfer_group"} -> j.k = "string"
      [] f \in {"amount", "amount_reversed", "created"} -> j.k = "number"
      [] f = "currency" -> j.k = "string" /\ j.v \in Currencies
      [] f \in {"livemode", "reversed"} -> j.k = "bool"
      [] f = "metadata" -> j.k = "object" /\ \A key \in DOMAIN j.v : j.v[key].k = "string"
      [] f = "reversals" ->
            /\ j.k = "object"
            /\ {"data", "has_more", "url"} \subseteq DOMAIN j.v
            /\ j.v["data"].k = "array"
            /\ \A i \in DOMAIN j.v["data"].v : IsRecordJson(j.v["data"].v[i])
            /\ j.v["has_more"].k = "bool"
            /\ j.v["url"].k = "string"
      [] f \in ExpandableFields -> j.k = "string" \/ IsRecordJson(j)

RequiredWellTyped(doc) ==
    \A f \in RequiredFields : f \in DOMAIN doc /\ HasDeclaredType(f, doc[f])

OptionalWellTyped(doc) ==
    \A f \in OptionalFields :
        f \in DOMAIN doc => (doc[f] = JNull \/ HasDeclaredType(f, doc[f]))

\* The optional field f is set in the document: present and not null.
IsSet(doc, f) == f \in DOMAIN doc /\ doc[f] /= JNull

----------------------------------------------------------------------------
C3_Accessors ==
    [][ret' /= ret =>
          /\ values' = values
          /\ ret'.op = "id" => ret'.val = values[ret'.on].val.id
          /\ ret'.op = "object" => ret'.val = "transfer"]_vars

\* object() was called on a live-mode transfer with another id than the
\* example's.
C3_Witness ==
    /\ ret.op = "object"
    /\ values[ret.on].val.id = "tr_2"
    /\ values[ret.on].val.livemode

(* C6: an optional field that is absent or null deserializes to None and   *)
(* is no error; a document of the required fields only deserializes to a   *)
(* Transfer whose optional fields are all None and whose required fields   *)
(* are the input's.                                                        *)
C6_AbsentOrNull ==
    Len(values) >= 1 =>
        LET in == docs[1]
            r == values[1]
        IN  /\ (RequiredWellTyped(in) /\ \A f \in OptionalFields : ~IsSet(in, f)) => IsOk(r)
            /\ IsOk(r) => \A f \in OptionalFields : ~IsSet(in, f) => r.val[f] = None
            /\ (IsOk(r) /\ DOMAIN in = RequiredFields) =>
                  /\ \A f \in OptionalFields : r.val[f] = None
                  /\ \A f \in {"id", "amount", "amount_reversed", "created", "currency",
                               "livemode", "reversed"} : r.val[f] = in[f].v
                  /\ DOMAIN r.val.metadata = DOMAIN in.metadata.v
                  /\ Len(r.val.reversals.data) = Len(in.reversals.v.data.v)
            /\ in = MinimalJson =>
                  /\ IsOk(r)
                  /\ r.val.amount_reversed = 0
                  /\ r.val.destination = None
                  /\ Transfer_object(r.val) = "transfer"

\* A document with a null optional field and an absent one was deserialized.
C6_Witness ==
    /\ Len(values) >= 1
    /\ IsOk(values[1])
    /\ \E f \in OptionalFields : f \in DOMAIN docs[1] /\ docs[1][f] = JNull
    /\ \E f \in OptionalFields : f \notin DOMAIN docs[1]

(* C7 as stated: every Transfer produced by deserialization satisfies      *)
(* reversed => amount_reversed = amount.                                   *)
C7_Original ==
    \A n \in DOMAIN values :
        IsOk(values[n]) =>
            (values[n].val.reversed => values[n].val.amount_reversed = values[n].val.amount)

(* C7 amended: a Transfer produced by deserialization has reversed, amount *)
(* and amount_reversed as the document gave them, so it satisfies          *)
(* reversed => amount_reversed = amount exactly when the document does;    *)
(* the deserializer does not check it.                                     *)
C7_Amended ==
    \A n \in DOMAIN values :
        IsOk(values[n]) =>
            ((values[n].val.reversed => values[n].val.amount_reversed = values[n].val.amount)
               <=> (docs[n].reversed.v => docs[n].amount_reversed.v = docs[n].amount.v))

\* A document with reversed = true and amount_reversed /= amount was accepted.
C7_Witness ==
    /\ Len(values) >= 1
    /\ IsOk(values[1])
    /\ values[1].val.reversed
    /\ values[1].val.amount_reversed /= values[1].val.amount

(* C9: a document in which a required field is missing or not of its       *)
(* declared type gives an error and no Transfer; a document whose fields   *)
(* all have their declared types is accepted whatever the values, and      *)
(* source_type takes any string.                                           *)
C9_TypesOnly ==
    Len(values) >= 1 =>
        LET in == docs[1]
            r == values[1]
        IN  /\ ~RequiredWellTyped(in) => r.tag = "Err" /\ DOMAIN r = {"tag", "err"}
            /\ (RequiredWellTyped(in) /\ OptionalWellTyped(in)) => IsOk(r)
            /\ IsOk(r) => DOMAIN r.val = TransferFields
            /\ (IsOk(r) /\ IsSet(in, "source_type")) =>
                  r.val.source_type = Some(in.source_type.v)

\* A source_type other than "card" and "bank_account" was accepted.
C9_Witness ==
    /\ Len(values) >= 1
    /\ IsOk(values[1])
    /\ values[1].val.source_type = Some("bitcoin")

\* A document lacking or mistyping a required field was refused.
C9_WitnessRefused ==
    /\ Len(values) >= 1
    /\ ~IsOk(values[1])
    /\ ~RequiredWellTyped(docs[1])

----------------------------------------------------------------------------
(* struct TransferListParams and its derived Serialize.                    *)

ParamsFieldOrder == <<"created", "ending_before", "expand", "limit", "starting_after">>

TransferListParams_default ==
    [created |-> None, ending_before |-> None, expand |-> <<>>, limit |-> None,
     starting_after |-> None]

\* Whether the derived Serialize leaves field f out for the value x.  The
\* fields carry #[serde(skip_deserializing_if = ...)], which is no attribute
\* of serialization: no field has a skip_serializing_if, so none is left out.
params_skip_serializing(f, x) == FALSE

\* What the query-string serializer may do with a None it is handed: write
\* nothing, or write the key with an empty value.
NoneStyles == {"omit", "empty"}

Pair(f, key, val) == [field |-> f, key |-> key, val |-> val]

\* Option<&TransferId>
qs_id(style, f, x) ==
    IF Option_is_none(x)
    THEN IF style = "omit" THEN <<>> ELSE <<Pair(f, f, "")>>
    ELSE <<Pair(f, f, x.val)>>

\* Option<u64>
qs_u64(style, f, x) ==
    IF Option_is_none(x)
    THEN IF style = "omit" THEN <<>> ELSE <<Pair(f, f, "")>>
    ELSE <<Pair(f, f, ToString(x.val))>>

\* Option<RangeQuery<Timestamp>>: one pair for each bound of the range.
qs_range(style, f, x) ==
    IF Option_is_none(x)
    THEN IF style = "omit" THEN <<>> ELSE <<Pair(f, f, "")>>
    ELSE (IF Option_is_none(x.val.gt) THEN <<>>
          ELSE <<Pair(f, f \o "[gt]", ToString(x.val.gt.val))>>)
         \o
         (IF Option_is_none(x.val.lte) THEN <<>>
          ELSE <<Pair(f, f \o "[lte]", ToString(x.val.lte.val))>>)

\* &[&str]: one pair for each element.
qs_slice(f, x) ==
    [i \in DOMAIN x |-> Pair(f, f \o "[" \o ToString(i - 1) \o "]", x[i])]

qs_field(style, f, x) ==
    CASE f = "created" -> qs_range(style, f, x)
      [] f \in {"ending_before", "starting_after"} -> qs_id(style, f, x)
      [] f = "expand" -> qs_slice(f, x)
      [] f = "limit" -> qs_u64(style, f, x)

RECURSIVE serialize_fields(_, _, _)
serialize_fields(style, p, n) ==
    IF n > Len(ParamsFieldOrder) THEN <<>>
    ELSE LET f == ParamsFieldOrder[n]
         IN (IF params_skip_serializing(f, p[f]) THEN <<>> ELSE qs_field(style, f, p[f]))
            \o serialize_fields(style, p, n + 1)

\* #[derive(Serialize)] struct TransferListParams, into the pairs of a query.
TransferListParams_serialize(style, p) == serialize_fields(style, p, 1)

\* The text of a query: key=value joined by &.
RECURSIVE QueryString(_)
QueryString(q) ==
    IF q = <<>> THEN ""
    ELSE q[1].key \o "=" \o q[1].val
         \o (IF Len(q) = 1 THEN "" ELSE "&" \o QueryString(Tail(q)))

----------------------------------------------------------------------------
(* The params a caller may pass.                                           *)

RECURSIVE SeqsUpTo(_, _)
SeqsUpTo(S, n) ==
    IF n = 0 THEN {<<>>}
    ELSE LET shorter == SeqsUpTo(S, n - 1)
         IN shorter \cup {Append(s, x) : s \in shorter, x \in S}

CreatedAfter == [gt |-> Some(1690000000), lte |-> None]

ParamsSet ==
    [created : {None, Some(CreatedAfter)},
     ending_before : {None, Some("tr_1")},
     expand : SeqsUpTo({"destination", "balance_transaction"}, MaxExpand),
     limit : {None, Some(5), Some(100)},
     starting_after : {None, Some("tr_2")}]

LimitFive == [TransferListParams_default EXCEPT !.limit = Some(5)]

InitParams ==
    /\ docs = <<>>
    /\ values = <<>>
    /\ edits = 0
    /\ ret = NoRet
    /\ query \in [params : ParamsSet, out : {None}]
    /\ noneStyle \in NoneStyles
    /\ requests = <<>>
    /\ calls = <<>>

\* The params are serialized into a query.
SerializeParams ==
    /\ Option_is_none(query.out)
    /\ query' = [query EXCEPT
                    !.out = Some(TransferListParams_serialize(noneStyle, query.params))]
    /\ UNCHANGED <<docs, values, edits, ret, noneStyle, requests, calls>>

NextParams == SerializeParams

SpecParams == InitParams /\ [][NextParams]_vars

HasField(q, f) == \E i \in DOMAIN q : q[i].field = f

(* C1: the query produced from a TransferListParams has a key for created, *)
(* ending_before, starting_after and limit exactly when the field is Some, *)
(* for expand exactly when the slice is non-empty, each with the field's   *)
(* value; the default params give the empty query and limit = Some(5)      *)
(* alone gives limit=5.                                                    *)
C1_OnlySetFields ==
    ~Option_is_none(query.out) =>
        LET p == query.params
            q == query.out.val
        IN  /\ \A f \in {"created", "ending_before", "starting_after", "limit"} :
                  HasField(q, f) <=> ~Option_is_none(p[f])
            /\ HasField(q, "expand") <=> p.expand /= <<>>
            /\ \A i \in DOMAIN q :
                  /\ q[i].field = "limit" => q[i].val = ToString(p.limit.val)
                  /\ q[i].field \in {"ending_before", "starting_after"} =>
                        q[i].val = p[q[i].field].val
            /\ Len(SelectSeq(q, LAMBDA e : e.field = "expand")) = Len(p.expand)
            /\ p = TransferListParams_default => QueryString(q) = ""
            /\ p = LimitFive => QueryString(q) = "limit=5"

----------------------------------------------------------------------------
(* The client and Transfer::list.                                          *)

\* List<Transfer> from the body of a response.
de_TransferList(j) ==
    IF j.k = "object"
    THEN IF /\ {"data", "has_more", "url"} \subseteq DOMAIN j.v
            /\ j.v["data"].k = "array"
            /\ j.v["has_more"].k = "bool"
            /\ j.v["url"].k = "string"
         THEN LET elems == j.v["data"].v
                  r == [i \in DOMAIN elems |->
                           IF elems[i].k = "object" THEN Transfer_deserialize(elems[i].v)
                           ELSE Err("invalid type")]
              IN  IF \A i \in DOMAIN elems : IsOk(r[i])
                  THEN Ok([data |-> [i \in DOMAIN elems |-> r[i].val],
                           has_more |-> j.v["has_more"].v,
                           url |-> j.v["url"].v])
                  ELSE Err("deserialize")
         ELSE Err("deserialize")
    ELSE Err("deserialize")

\* What the client makes of the answer to a request: a transport failure and
\* a non-2xx status are errors, a body is deserialized.
Client_outcome(response) ==
    CASE response.kind = "transport" -> Err("transport")
      [] response.kind = "status" -> Err("api")
      [] response.kind = "body" -> de_TransferList(response.json)

\* client.get_query(path, params): one GET of path with the params as query.
\* The client is given by the answer its request will receive.
Client_get_query(client, path, params) ==
    [requests |-> <<[method |-> "GET", path |-> path,
                     query |-> TransferListParams_serialize(noneStyle, params)]>>,
     result |-> Client_outcome(client.response)]

\* list with the path in the singular.
Transfer_list_singular(client, params) == Client_get_query(client, "/transfer", params)

\* list turning an error into an empty list.
Transfer_list_swallow(client, params) ==
    LET out == Client_get_query(client, "/transfers", params)
    IN  IF IsOk(out.result) THEN out
        ELSE [out EXCEPT !.result = Ok([data |-> <<>>, has_more |-> FALSE, url |-> ""])]

\* s with x put before the first record created earlier than x.
RECURSIVE InsertNewestFirst(_, _)
InsertNewestFirst(s, x) ==
    IF s = <<>> THEN <<x>>
    ELSE IF s[1].created < x.created THEN <<x>> \o s
         ELSE <<s[1]>> \o InsertNewestFirst(Tail(s), x)

RECURSIVE NewestFirst(_)
NewestFirst(s) ==
    IF s = <<>> THEN <<>> ELSE InsertNewestFirst(NewestFirst(SubSeq(s, 1, Len(s) - 1)), s[Len(s)])

\* list sorting the records locally, most recently created first.
Transfer_list_sorted(client, params) ==
    LET out == Client_get_query(client, "/transfers", params)
    IN  IF IsOk(out.result)
        THEN [out EXCEPT !.result = Ok([out.result.val EXCEPT !.data = NewestFirst(@)])]
        ELSE out

\* The ids of the records the earlier calls returned.
SeenIds ==
    UNION {{calls[n].result.val.data[i].id : i \in DOMAIN calls[n].result.val.data} :
             n \in {m \in DOMAIN calls : IsOk(calls[m].result)}}

\* list remembering what it returned: records an earlier call returned are
\* left out.
Transfer_list_dedup(client, params) ==
    LET out == Client_get_query(client, "/transfers", params)
    IN  IF IsOk(out.result)
        THEN [out EXCEPT !.result = Ok([out.result.val EXCEPT
                 !.data = SelectSeq(@, LAMBDA t : t.id \notin SeenIds)])]
        ELSE out

\* Transfer::list(client, params): the requests it issues and what it returns.
Transfer_list(client, params) == Client_get_query(client, "/transfers", params)

----------------------------------------------------------------------------
(* The answers a request may receive.                                      *)

\* A document lacking the required field amount.
BadJson == WithoutField(MinimalJson, "amount")

ListJson(data) ==
    JObj([object |-> JStr("list"),
          data |-> JArr([i \in DOMAIN data |-> JObj(data[i])]),
          has_more |-> JBool(FALSE),
          url |-> JStr("/v1/transfers")])

Responses ==
    {[kind |-> "transport"], [kind |-> "status", code |-> 402]}
    \cup {[kind |-> "body", json |-> ListJson(d)] :
            d \in SeqsUpTo({MinimalJson, FullJson}, MaxData)}
    \cup {[kind |-> "body", json |-> ListJson(d)] : d \in {<<BadJson>>, <<FullJson, BadJson>>}}

\* The params the calls are made with.
ListParams ==
    { TransferListParams_default,
      [TransferListParams_default EXCEPT
          !.starting_after = Some("tr_2"), !.expand = <<"destination">>,
          !.limit = Some(1)] }

InitList ==
    /\ docs = <<>>
    /\ values = <<>>
    /\ edits = 0
    /\ ret = NoRet
    /\ query = [params |-> None, out |-> None]
    /\ noneStyle \in NoneStyles
    /\ requests = <<>>
    /\ calls = <<>>

\* A caller calls Transfer::list(client, params) and the request is answered
\* with response.
ListCall(params, response) ==
    /\ Len(calls) < MaxCalls
    /\ LET out == Transfer_list([response |-> response], params)
       IN  /\ requests' = requests \o out.requests
           /\ calls' = Append(calls,
                  [params |-> params,
                   response |-> response,
                   outcome |-> Client_outcome(response),
                   sent |-> Len(out.requests),
                   result |-> out.result])
    /\ UNCHANGED <<docs, values, edits, ret, query, noneStyle>>

NextList == \E params \in ListParams : \E response \in Responses : ListCall(params, response)

SpecList == InitList /\ [][NextList]_vars

\* The elements of the data array of a body.
BodyData(response) == response.json.v["data"].v

(* C4: every call of Transfer::list issues exactly one request, a GET of   *)
(* /transfers whose query is the serialization of the params given.        *)
C4_OneGet ==
    /\ Len(requests) = Len(calls)
    /\ \A n \in DOMAIN calls :
          /\ calls[n].sent = 1
          /\ requests[n].method = "GET"
          /\ requests[n].path = "/transfers"
          /\ requests[n].query = TransferListParams_serialize(noneStyle, calls[n].params)

\* Two calls with different params were made.
C4_Witness ==
    /\ Len(calls) = 2
    /\ calls[1].params = TransferListParams_default
    /\ calls[2].params.limit = Some(1)

(* C5: when the client's GET ends in a transport error, an API error or a  *)
(* schema mismatch, Transfer::list returns that error and has issued one   *)
(* request.                                                                *)
C5_ErrorsPropagate ==
    \A n \in DOMAIN calls :
        LET c == calls[n]
        IN  /\ c.response.kind = "transport" => c.result = Err("transport")
            /\ c.response.kind = "status" => c.result = Err("api")
            /\ ~IsOk(c.outcome) => c.result = c.outcome /\ c.sent = 1

\* One call met a transport error and one a body with a malformed element.
C5_Witness ==
    /\ Len(calls) = 2
    /\ calls[1].response.kind = "transport"
    /\ calls[2].response.kind = "body"
    /\ ~IsOk(calls[2].result)

(* C8: on success the records of the returned list are the elements of the *)
(* response's data array: as many, the same, in the same order.            *)
C8_ServerOrder ==
    \A n \in DOMAIN calls :
        LET c == calls[n]
        IN  IsOk(c.result) =>
              /\ c.response.kind = "body"
              /\ Len(c.result.val.data) = Len(BodyData(c.response))
              /\ \A i \in DOMAIN c.result.val.data :
                    /\ c.result.val.data[i].id = BodyData(c.response)[i].v.id.v
                    /\ Ok(c.result.val.data[i]) = Transfer_deserialize(BodyData(c.response)[i].v)

\* A call with limit = 1 returned two different records, the older first.
C8_Witness ==
    \E n \in DOMAIN calls :
        /\ IsOk(calls[n].result)
        /\ calls[n].params.limit = Some(1)
        /\ Len(calls[n].result.val.data) = 2
        /\ calls[n].result.val.data[1].created < calls[n].result.val.data[2].created

(* C10: a list call leaves the params and results of the earlier calls as  *)
(* they were, and calls with equal params that receive equal responses     *)
(* return equal results whatever calls came before.                        *)
C10_Stateless ==
    [][/\ \A n \in DOMAIN calls : n \in DOMAIN calls' /\ calls'[n] = calls[n]
       /\ \A m, n \in DOMAIN calls' :
             (calls'[m].params = calls'[n].params /\ calls'[m].response = calls'[n].response)
                => calls'[m].result = calls'[n].result]_vars

\* The same successful call was made twice.
C10_Witness ==
    /\ Len(calls) = 2
    /\ calls[1].params = calls[2].params
    /\ calls[1].response = calls[2].response
    /\ IsOk(calls[1].result)
    /\ Len(calls[1].result.val.data) = 2

====
